---- MODULE Spec2Model ----
(***************************************************************************)
(* Model of the improved-markdown utilities of the file browser frontend:  *)
(*   - PathOperations (POSIX path algebra: resolve, relative, dirname),    *)
(*   - the secret codec (deriveKey, encrypt, decrypt over WebCrypto),      *)
(*   - the host's session key cache (getKey and the encrypt / decrypt      *)
(*     template filters),                                                  *)
(*   - the template stack kept by the patched Template.render,             *)
(*   - the loading of the third-party assets by markedPreprocess.          *)
(* A JavaScript string is a sequence of one-character strings (paths) or   *)
(* of UTF-16 code units (text); a byte buffer is a sequence of 0..255.     *)
(***************************************************************************)
EXTENDS Integers, Sequences, FiniteSets, TLC

VARIABLES
  \* ---- PathOperations -------------------------------------------------
  cwd,        \* this.cwd of the PathOperations instance
  paths,      \* the arguments of the call under study
  op,         \* which method was applied last ("init" before any)
  result,     \* the string the method returned
  \* ---- secret codec ---------------------------------------------------
  subtle,     \* "ok" when crypto.subtle works, "unavailable" otherwise
  stage,      \* position in the derive / encrypt / decrypt pipeline
  plaintext,  \* the plaintext handed to encrypt
  pwEnc,      \* password of the encrypting side
  pwDec,      \* password of the decrypting side
  keyEnc,     \* result of deriveKey(pwEnc)
  keyDec,     \* result of a separate deriveKey(pwDec)
  nonce,      \* the value crypto.getRandomValues returned to encrypt
  payload,    \* the base64 string handed to decrypt
  origin,     \* how payload was obtained ("encrypt", "tampered", ...)
  outcome,    \* what decrypt did: a returned string or a thrown error
  callback,   \* what the decrypt filter passed to its callback
  \* ---- host session ---------------------------------------------------
  cryptoKey,  \* the cached key of the session (NoKey when null)
  pc,         \* per filter call: where the call is
  call,       \* per filter call: its kind, input, password and key
  event,      \* the observable effect of the last step
  \* ---- template rendering ---------------------------------------------
  templateStack, \* renderCtx.__templateStack of the render context
  renders,    \* per Template.render call: state, template path, caller
  tagSeen,    \* the last download / image / link tag evaluated
  \* ---- asset loading --------------------------------------------------
  document,   \* per asset id: the elements of the document with that id
  preprocess, \* per markedPreprocess call: where the call is
  loaded      \* what the last step of a markedPreprocess call observed

pathVars == <<cwd, paths, op, result>>
codecVars == <<subtle, stage, plaintext, pwEnc, pwDec, keyEnc, keyDec, nonce,
               payload, origin, outcome, callback>>
hostVars == <<cryptoKey, pc, call, event>>
renderVars == <<templateStack, renders, tagSeen>>
assetVars == <<document, preprocess, loaded>>
pageVars == <<renderVars, assetVars>>
vars == <<pathVars, codecVars, hostVars, pageVars>>

Null == "null"

\* values of the right shape for "nothing yet"
NoKey == [algorithm |-> "none"]
NoOutcome == [kind |-> "none"]
NoCallback == [err |-> "none", res |-> <<>>]

(***************************************************************************)
(* Generic helpers on sequences.                                           *)
(***************************************************************************)
Last(s) == s[Len(s)]

\* JavaScript String.prototype.substring / Array.prototype.slice (s, from)
DropFirst(s, n) == IF Len(s) <= n THEN <<>> ELSE SubSeq(s, n + 1, Len(s))

\* first index i >= from with s[i] = c, or 0
RECURSIVE IndexOf(_, _, _)
IndexOf(s, c, from) ==
  IF from > Len(s) THEN 0
  ELSE IF s[from] = c THEN from
  ELSE IndexOf(s, c, from + 1)

\* String.prototype.split("/"): "" gives [""]
RECURSIVE Split(_)
Split(s) ==
  LET i == IndexOf(s, "/", 1) IN
  IF i = 0 THEN <<s>>
  ELSE <<SubSeq(s, 1, i - 1)>> \o Split(DropFirst(s, i))

\* Array.prototype.join("/"): [] gives ""
RECURSIVE Join(_)
Join(parts) ==
  IF parts = <<>> THEN <<>>
  ELSE IF Len(parts) = 1 THEN parts[1]
  ELSE parts[1] \o <<"/">> \o Join(Tail(parts))

(***************************************************************************)
(* PathOperations                                                          *)
(***************************************************************************)
Dot == <<".">>
DotDot == <<".", ".">>
Slash == <<"/">>

RECURSIVE normalizeLoop(_, _, _, _)
normalizeLoop(parts, i, res, allowAboveRoot) ==
  IF i > Len(parts) THEN res
  ELSE LET p == parts[i] IN
    IF p = <<>> \/ p = Dot
      THEN normalizeLoop(parts, i + 1, res, allowAboveRoot)
    ELSE IF p = DotDot
      THEN IF Len(res) > 0 /\ Last(res) # DotDot
             THEN normalizeLoop(parts, i + 1, SubSeq(res, 1, Len(res) - 1),
                                allowAboveRoot)
           ELSE IF allowAboveRoot
             THEN normalizeLoop(parts, i + 1, Append(res, DotDot),
                                allowAboveRoot)
           ELSE normalizeLoop(parts, i + 1, res, allowAboveRoot)
    ELSE normalizeLoop(parts, i + 1, Append(res, p), allowAboveRoot)

normalizeArray(parts, allowAboveRoot) ==
  normalizeLoop(parts, 1, <<>>, allowAboveRoot)

\* Mutant of resolveLoop: the loop ends at the leftmost argument (i >= 0) and
\* never takes the working directory.
RECURSIVE resolveLoopWithoutCwd(_, _, _, _, _)
resolveLoopWithoutCwd(wd, ps, i, resolvedPath, resolvedAbsolute) ==
  IF i < 1 \/ resolvedAbsolute
    THEN [path |-> resolvedPath, absolute |-> resolvedAbsolute]
  ELSE IF ps[i] = <<>>
    THEN resolveLoopWithoutCwd(wd, ps, i - 1, resolvedPath, resolvedAbsolute)
  ELSE resolveLoopWithoutCwd(wd, ps, i - 1, ps[i] \o Slash \o resolvedPath,
                             ps[i][1] = "/")

\* Mutant of resolve: the loop lacks "&& !resolvedAbsolute" and goes on to
\* the left of an absolute segment.
RECURSIVE resolveLoopPastAbsolute(_, _, _, _, _)
resolveLoopPastAbsolute(wd, ps, i, resolvedPath, resolvedAbsolute) ==
  IF i < 0
    THEN [path |-> resolvedPath, absolute |-> resolvedAbsolute]
  ELSE LET path == IF i >= 1 THEN ps[i] ELSE wd IN
    IF path = <<>>
      THEN resolveLoopPastAbsolute(wd, ps, i - 1, resolvedPath, resolvedAbsolute)
    ELSE resolveLoopPastAbsolute(wd, ps, i - 1, path \o Slash \o resolvedPath,
                                 path[1] = "/")

\* The loop of resolve: i runs from the last argument down to the working
\* directory (index 0 here, -1 in the source) and stops at an absolute one.
RECURSIVE resolveLoop(_, _, _, _, _)
resolveLoop(wd, ps, i, resolvedPath, resolvedAbsolute) ==
  IF i < 0 \/ resolvedAbsolute
    THEN [path |-> resolvedPath, absolute |-> resolvedAbsolute]
  ELSE LET path == IF i >= 1 THEN ps[i] ELSE wd IN
    IF path = <<>>
      THEN resolveLoop(wd, ps, i - 1, resolvedPath, resolvedAbsolute)
    ELSE resolveLoop(wd, ps, i - 1, path \o Slash \o resolvedPath,
                     path[1] = "/")

\* Mutant of resolve: the final "|| '.'" is missing.
resolveWithoutDefault(wd, ps) ==
  LET r == resolveLoop(wd, ps, Len(ps), <<>>, FALSE)
      resolvedPath == Join(normalizeArray(Split(r.path), ~r.absolute))
  IN (IF r.absolute THEN Slash ELSE <<>>) \o resolvedPath

resolve(wd, ps) ==
  LET r == resolveLoop(wd, ps, Len(ps), <<>>, FALSE)
      resolvedPath == Join(normalizeArray(Split(r.path), ~r.absolute))
      s == (IF r.absolute THEN Slash ELSE <<>>) \o resolvedPath
  IN IF s = <<>> THEN Dot ELSE s

isAbsolute(path) == Len(path) > 0 /\ path[1] = "/"

RECURSIVE trimStart(_, _)
trimStart(arr, start) ==
  IF start > Len(arr) THEN start
  ELSE IF arr[start] # <<>> THEN start
  ELSE trimStart(arr, start + 1)

RECURSIVE trimEnd(_, _)
trimEnd(arr, end) ==
  IF end < 1 THEN end
  ELSE IF arr[end] # <<>> THEN end
  ELSE trimEnd(arr, end - 1)

trimArray(arr) ==
  LET start == trimStart(arr, 1)
      end == trimEnd(arr, Len(arr))
  IN IF start = 1 /\ end = Len(arr) THEN arr
     ELSE IF start > end THEN <<>>
     ELSE SubSeq(arr, start, end)

\* Mutant of samePartsLoop: samePartsLength starts at 0 instead of length,
\* so a loop that never breaks leaves 0.
RECURSIVE samePartsLoopFromZero(_, _, _, _)
samePartsLoopFromZero(fromParts, toParts, i, length) ==
  IF i > length THEN 0
  ELSE IF fromParts[i] # toParts[i] THEN i - 1
  ELSE samePartsLoopFromZero(fromParts, toParts, i + 1, length)

RECURSIVE samePartsLoop(_, _, _, _)
samePartsLoop(fromParts, toParts, i, length) ==
  IF i > length THEN length
  ELSE IF fromParts[i] # toParts[i] THEN i - 1
  ELSE samePartsLoop(fromParts, toParts, i + 1, length)

\* Mutant of relative: the loop that pushes ".." is missing.
relativeWithoutUps(wd, from, to) ==
  LET f == DropFirst(resolve(wd, <<from>>), 1)
      t == DropFirst(resolve(wd, <<to>>), 1)
      fromParts == trimArray(Split(f))
      toParts == trimArray(Split(t))
      length == IF Len(fromParts) < Len(toParts) THEN Len(fromParts)
                ELSE Len(toParts)
      samePartsLength == samePartsLoop(fromParts, toParts, 1, length)
  IN Join(DropFirst(toParts, samePartsLength))

relative(wd, from, to) ==
  LET f == DropFirst(resolve(wd, <<from>>), 1)
      t == DropFirst(resolve(wd, <<to>>), 1)
      fromParts == trimArray(Split(f))
      toParts == trimArray(Split(t))
      length == IF Len(fromParts) < Len(toParts) THEN Len(fromParts)
                ELSE Len(toParts)
      samePartsLength == samePartsLoop(fromParts, toParts, 1, length)
      ups == [i \in 1..(Len(fromParts) - samePartsLength) |-> DotDot]
  IN Join(ups \o DropFirst(toParts, samePartsLength))

\* splitPathRe: the remainder after root and dir must be a base name (any
\* run of non-separators) followed only by separators.
NoSlashIn(s) == \A i \in 1..Len(s) : s[i] # "/"
OnlySlashes(s) == \A i \in 1..Len(s) : s[i] = "/"
baseAndTail(r) ==
  \E k \in 0..Len(r) : NoSlashIn(SubSeq(r, 1, k)) /\ OnlySlashes(DropFirst(r, k))

\* The lazy group ([\s\S]*?): the shortest dir after which the rest matches.
RECURSIVE lazyDir(_, _, _)
lazyDir(filename, rootLen, d) ==
  IF rootLen + d > Len(filename) THEN -1
  ELSE IF baseAndTail(DropFirst(filename, rootLen + d)) THEN d
  ELSE lazyDir(filename, rootLen, d + 1)

\* posixSplitPath: <<root, dir, basename>> (the ext group is part of
\* basename and is not used by dirname).  (\/?|) tries "/" first.
posixSplitPath(filename) ==
  LET rootLen == IF isAbsolute(filename) /\ lazyDir(filename, 1, 0) >= 0
                   THEN 1 ELSE 0
      d == lazyDir(filename, rootLen, 0)
      rest == DropFirst(filename, rootLen + d)
      b == CHOOSE k \in 0..Len(rest) :
             NoSlashIn(SubSeq(rest, 1, k)) /\ OnlySlashes(DropFirst(rest, k))
  IN <<SubSeq(filename, 1, rootLen),
       SubSeq(filename, rootLen + 1, rootLen + d),
       SubSeq(rest, 1, b)>>

\* Mutant of dirname: the trailing separator of dir is kept.
dirnameKeepingSeparator(path) ==
  LET parts == posixSplitPath(path)
  IN IF parts[1] = <<>> /\ parts[2] = <<>> THEN Dot
     ELSE parts[1] \o parts[2]

dirname(path) ==
  LET parts == posixSplitPath(path)
      root == parts[1]
      dir == parts[2]
  IN IF root = <<>> /\ dir = <<>> THEN Dot
     ELSE root \o (IF dir # <<>> THEN SubSeq(dir, 1, Len(dir) - 1) ELSE dir)


(***************************************************************************)
(* The path calls under study: every argument list of at most MaxSegs      *)
(* strings over PathChars with at most MaxTotalLen characters in total,    *)
(* plus the documented scenarios, for each working directory of Cwds.      *)
(***************************************************************************)
MaxSegs == 2
MaxTotalLen == 4
PathChars == {"/", ".", "a"}

Strs(n) == UNION {[1..k -> PathChars] : k \in 0..n}

RECURSIVE ArgsWith(_, _)
ArgsWith(k, n) ==
  IF k = 0 THEN {<<>>}
  ELSE UNION {{<<s>> \o rest : rest \in ArgsWith(k - 1, n - Len(s))} :
              s \in Strs(n)}

ScenarioArgs ==
  { <<<<"/", "a", "/", "b">>, <<".", ".", "/", "c">>>>,
    <<<<"a">>, <<"b">>, <<".", ".", "/", "c">>>>,
    <<<<"/", "a", "/", "b">>, <<"/", "a", "/", "c", "/", "d">>>>,
    <<<<"/", "a", "/", "b", "/", "c", ".", "m", "d">>>>,
    <<<<"/", "x">>>> }

PathArgs == UNION {ArgsWith(k, MaxTotalLen) : k \in 0..MaxSegs} \cup ScenarioArgs

\* "/" is the working directory of the host's instance; the others are
\* what the constructor also accepts (empty, relative, not normalised).
Cwds == {<<>>, Slash, <<"/", "a">>, <<"a">>, <<".", ".">>}

CodecOff ==
  /\ stage = "off" /\ plaintext = <<>> /\ pwEnc = <<>> /\ pwDec = <<>>
  /\ keyEnc = NoKey /\ keyDec = NoKey /\ nonce = <<>> /\ payload = <<>>
  /\ origin = "none" /\ outcome = NoOutcome /\ callback = NoCallback

HostIdle ==
  /\ cryptoKey = NoKey /\ pc = <<>> /\ call = <<>> /\ event = [type |-> "none"]

CodecIdle == subtle = "ok" /\ CodecOff

PathIdle ==
  /\ cwd = <<>> /\ paths = <<>> /\ op = "off" /\ result = <<>>

NoTag == [template |-> "none", top |-> "none"]
NoLoad == [type |-> "none"]

RenderIdle == templateStack = <<>> /\ renders = <<>> /\ tagSeen = NoTag
AssetIdle == document = <<>> /\ preprocess = <<>> /\ loaded = NoLoad
PageIdle == RenderIdle /\ AssetIdle

PathInit ==
  /\ cwd \in Cwds
  /\ paths \in PathArgs
  /\ op = "init"
  /\ result = <<>>
  /\ CodecIdle
  /\ HostIdle
  /\ PageIdle

Resolve ==
  /\ op = "init"
  /\ op' = "resolve"
  /\ result' = resolve(cwd, paths)
  /\ UNCHANGED <<cwd, paths, codecVars, hostVars, pageVars>>

Relative ==
  /\ op = "init"
  /\ Len(paths) = 2
  /\ op' = "relative"
  /\ result' = relative(cwd, paths[1], paths[2])
  /\ UNCHANGED <<cwd, paths, codecVars, hostVars, pageVars>>

Dirname ==
  /\ op = "init"
  /\ Len(paths) = 1
  /\ op' = "dirname"
  /\ result' = dirname(paths[1])
  /\ UNCHANGED <<cwd, paths, codecVars, hostVars, pageVars>>

PathNext == Resolve \/ Relative \/ Dirname

SpecPath == PathInit /\ [][PathNext]_vars

(***************************************************************************)
(* Claims about PathOperations (checked under SpecPath).                   *)
(***************************************************************************)
NamedSegment(seg) == seg # <<>> /\ seg # Dot /\ seg # DotDot

\* "/" followed by named segments joined by "/" ("/" alone when there are none)
AbsoluteCanonical(s) ==
  /\ isAbsolute(s)
  /\ \/ s = Slash
     \/ \A i \in DOMAIN Split(DropFirst(s, 1)) :
          NamedSegment(Split(DropFirst(s, 1))[i])

\* a non-empty run of segments: ".." segments first, named segments after
RelativeCanonical(s) ==
  /\ s # <<>>
  /\ ~isAbsolute(s)
  /\ \A i \in DOMAIN Split(s) :
       /\ Split(s)[i] # <<>>
       /\ Split(s)[i] # Dot
       /\ Split(s)[i] = DotDot => \A j \in 1..i : Split(s)[j] = DotDot

\* The ".." segments of a relative input that no earlier named segment
\* absorbs, counted by walking the input's segments with a depth counter.
RECURSIVE AboveStart(_, _, _, _)
AboveStart(parts, i, depth, ups) ==
  IF i > Len(parts) THEN ups
  ELSE IF parts[i] = <<>> \/ parts[i] = Dot
    THEN AboveStart(parts, i + 1, depth, ups)
  ELSE IF parts[i] = DotDot
    THEN IF depth > 0 THEN AboveStart(parts, i + 1, depth - 1, ups)
         ELSE AboveStart(parts, i + 1, 0, ups + 1)
  ELSE AboveStart(parts, i + 1, depth + 1, ups)

RECURSIVE InputSegments(_, _)
InputSegments(wd, ps) ==
  IF ps = <<>> THEN Split(wd)
  ELSE InputSegments(wd, SubSeq(ps, 1, Len(ps) - 1)) \o Split(Last(ps))

LeadingDotDots(s) ==
  Cardinality({i \in DOMAIN Split(s) : Split(s)[i] = DotDot})

\* C7: the result of resolve is "/" followed by named segments, or a
\* non-empty relative path of non-empty segments, or "."; it is never
\* empty, has no "." and no empty segment, has no ".." when absolute, and
\* when relative keeps exactly the ".." segments that cannot be resolved.
C7_ResolveCanonical ==
  op = "resolve" =>
    /\ result # <<>>
    /\ \/ AbsoluteCanonical(result)
       \/ result = Dot
       \/ RelativeCanonical(result)
    /\ ~isAbsolute(result) =>
         /\ result = Dot => AboveStart(InputSegments(cwd, paths), 1, 0, 0) = 0
         /\ result # Dot =>
              LeadingDotDots(result) =
                AboveStart(InputSegments(cwd, paths), 1, 0, 0)

\* C7 witness: a relative result that keeps two unresolvable ".." segments
\* (one of the working directory, one of the argument) before a name.
C7_Witness ==
  /\ op = "resolve"
  /\ cwd = DotDot
  /\ result = <<".", ".", "/", ".", ".", "/", "a">>

ArgsAbC == <<<<"a">>, <<"b">>, <<".", ".", "/", "c">>>>
ArgsAbsAbC == <<<<"/", "a", "/", "b">>, <<".", ".", "/", "c">>>>
PathAC == <<"/", "a", "/", "c">>
RelPathAC == <<"a", "/", "c">>

C9_RelativeSameIsEmpty ==
  (op = "relative" /\ resolve(cwd, <<paths[1]>>) = resolve(cwd, <<paths[2]>>))
    => result = <<>>

\* C9 witness: two different spellings of one directory below the root.
C9_Witness ==
  /\ op = "relative"
  /\ cwd = Slash
  /\ paths[1] # paths[2]
  /\ resolve(cwd, <<paths[1]>>) = <<"/", "a">>
  /\ resolve(cwd, <<paths[2]>>) = <<"/", "a">>
  /\ result = <<>>

\* root and dir of a path as the documentation describes them: root is "/"
\* or empty; dir is what follows the root up to and including the last
\* separator before the final segment, trailing separators not counted.
RECURSIVE StripTrailingSlashes(_)
StripTrailingSlashes(s) ==
  IF s # <<>> /\ Last(s) = "/"
    THEN StripTrailingSlashes(SubSeq(s, 1, Len(s) - 1))
  ELSE s

RECURSIVE UpToLastSlash(_)
UpToLastSlash(s) ==
  IF s = <<>> \/ Last(s) = "/" THEN s
  ELSE UpToLastSlash(SubSeq(s, 1, Len(s) - 1))

RootOf(p) == IF isAbsolute(p) THEN Slash ELSE <<>>
DirOf(p) == UpToLastSlash(StripTrailingSlashes(DropFirst(p, Len(RootOf(p)))))
WithoutTrailingSlash(d) ==
  IF d # <<>> /\ Last(d) = "/" THEN SubSeq(d, 1, Len(d) - 1) ELSE d

SingleSegmentAtRoot(p) ==
  /\ Len(p) >= 2
  /\ p[1] = "/"
  /\ NoSlashIn(DropFirst(p, 1))

\* C10 as stated: "." for a path without "/", "/" for "/x", and root + dir
\* without its trailing separator for every other path.
C10_Original ==
  op = "dirname" =>
    LET p == paths[1] IN
      IF NoSlashIn(p) THEN result = Dot
      ELSE IF SingleSegmentAtRoot(p) THEN result = Slash
      ELSE result = RootOf(p) \o WithoutTrailingSlash(DirOf(p))

\* C10 amended: "." whenever root and dir are both empty, which is every
\* path without "/" and also a single relative segment followed only by
\* separators ("a/"); "/" for "/x"; otherwise root + dir with the one
\* trailing separator of dir removed; dirname("/a/b/c.md") is "/a/b".
C10_Dirname ==
  op = "dirname" =>
    LET p == paths[1] IN
      /\ NoSlashIn(p) => result = Dot
      /\ SingleSegmentAtRoot(p) => result = Slash
      /\ IF RootOf(p) = <<>> /\ DirOf(p) = <<>> THEN result = Dot
         ELSE result = RootOf(p) \o WithoutTrailingSlash(DirOf(p))
      /\ p = <<"/", "a", "/", "b", "/", "c", ".", "m", "d">>
           => result = <<"/", "a", "/", "b">>

\* C10 witness: a dir that keeps a separator of its own after the strip.
C10_Witness ==
  /\ op = "dirname"
  /\ paths[1] = <<"a", "/", "/", "a">>
  /\ result = <<"a", "/">>

(***************************************************************************)
(* Text encoding.  A string is a sequence of UTF-16 code units, a buffer a *)
(* sequence of bytes.                                                      *)
(***************************************************************************)
IsHighSurrogate(u) == u >= 55296 /\ u <= 56319   \* D800..DBFF
IsLowSurrogate(u) == u >= 56320 /\ u <= 57343    \* DC00..DFFF
ReplacementChar == <<65533>>                     \* U+FFFD
ByteOrderMark == 65279                           \* U+FEFF

\* UTF-8 bytes of one scalar value
EncodeScalar(cp) ==
  IF cp < 128 THEN <<cp>>
  ELSE IF cp < 2048 THEN <<192 + (cp \div 64), 128 + (cp % 64)>>
  ELSE IF cp < 65536
    THEN <<224 + (cp \div 4096), 128 + ((cp \div 64) % 64), 128 + (cp % 64)>>
  ELSE <<240 + (cp \div 262144), 128 + ((cp \div 4096) % 64),
         128 + ((cp \div 64) % 64), 128 + (cp % 64)>>

\* new TextEncoder().encode(s): a surrogate pair is one scalar value, a lone
\* surrogate is encoded as U+FFFD
RECURSIVE Utf8Encode(_)
Utf8Encode(s) ==
  IF s = <<>> THEN <<>>
  ELSE IF IsHighSurrogate(s[1]) /\ Len(s) >= 2 /\ IsLowSurrogate(s[2])
    THEN EncodeScalar(65536 + (s[1] - 55296) * 1024 + (s[2] - 56320))
           \o Utf8Encode(DropFirst(s, 2))
  ELSE IF IsHighSurrogate(s[1]) \/ IsLowSurrogate(s[1])
    THEN EncodeScalar(65533) \o Utf8Encode(Tail(s))
  ELSE EncodeScalar(s[1]) \o Utf8Encode(Tail(s))

IsContinuation(b) == b >= 128 /\ b <= 191

\* code units of one scalar value
ScalarUnits(cp) ==
  IF cp < 65536 THEN <<cp>>
  ELSE <<55296 + ((cp - 65536) \div 1024), 56320 + ((cp - 65536) % 1024)>>

\* The UTF-8 decoder: a well-formed sequence gives its scalar value, any
\* other byte gives U+FFFD and the decoder goes on with the next byte.
RECURSIVE Utf8DecodeFrom(_)
Utf8DecodeFrom(b) ==
  IF b = <<>> THEN <<>>
  ELSE IF b[1] < 128 THEN <<b[1]>> \o Utf8DecodeFrom(Tail(b))
  ELSE IF /\ b[1] >= 194 /\ b[1] <= 223
          /\ Len(b) >= 2 /\ IsContinuation(b[2])
    THEN <<(b[1] - 192) * 64 + (b[2] - 128)>> \o Utf8DecodeFrom(DropFirst(b, 2))
  ELSE IF /\ b[1] >= 224 /\ b[1] <= 239
          /\ Len(b) >= 3 /\ IsContinuation(b[2]) /\ IsContinuation(b[3])
          /\ (b[1] = 224 => b[2] >= 160)
          /\ (b[1] = 237 => b[2] <= 159)
    THEN <<(b[1] - 224) * 4096 + (b[2] - 128) * 64 + (b[3] - 128)>>
           \o Utf8DecodeFrom(DropFirst(b, 3))
  ELSE IF /\ b[1] >= 240 /\ b[1] <= 244
          /\ Len(b) >= 4 /\ IsContinuation(b[2]) /\ IsContinuation(b[3])
          /\ IsContinuation(b[4])
          /\ (b[1] = 240 => b[2] >= 144)
          /\ (b[1] = 244 => b[2] <= 143)
    THEN ScalarUnits((b[1] - 240) * 262144 + (b[2] - 128) * 4096
                       + (b[3] - 128) * 64 + (b[4] - 128))
           \o Utf8DecodeFrom(DropFirst(b, 4))
  ELSE ReplacementChar \o Utf8DecodeFrom(Tail(b))

\* new TextDecoder().decode(data): the default decoder (ignoreBOM false)
\* drops one byte order mark EF BB BF at the start of the data
Utf8Decode(b) ==
  IF Len(b) >= 3 /\ SubSeq(b, 1, 3) = EncodeScalar(ByteOrderMark)
    THEN Utf8DecodeFrom(DropFirst(b, 3))
  ELSE Utf8DecodeFrom(b)

(***************************************************************************)
(* base64.  A base64 string is a sequence of characters, each written as   *)
(* its index in the base64 alphabet (0..63), PadChar for "=", SpaceChar    *)
(* for ASCII whitespace and OtherChar for any other character.             *)
(***************************************************************************)
PadChar == 64 + 0
SpaceChar == 64 + 1
OtherChar == 64 + 2

\* btoa of the binary string of the bytes
RECURSIVE Btoa(_)
Btoa(b) ==
  IF b = <<>> THEN <<>>
  ELSE IF Len(b) = 1
    THEN <<b[1] \div 4, (b[1] % 4) * 16, PadChar, PadChar>>
  ELSE IF Len(b) = 2
    THEN <<b[1] \div 4, (b[1] % 4) * 16 + (b[2] \div 16), (b[2] % 16) * 4,
           PadChar>>
  ELSE <<b[1] \div 4, (b[1] % 4) * 16 + (b[2] \div 16),
         (b[2] % 16) * 4 + (b[3] \div 64), b[3] % 64>>
         \o Btoa(DropFirst(b, 3))

bufferToBase64(buffer) == Btoa(buffer)

RECURSIVE WithoutSpaces(_)
WithoutSpaces(s) ==
  IF s = <<>> THEN <<>>
  ELSE IF s[1] = SpaceChar THEN WithoutSpaces(Tail(s))
  ELSE <<s[1]>> \o WithoutSpaces(Tail(s))

WithoutPadding(s) ==
  IF Len(s) % 4 = 0 /\ Len(s) >= 2 /\ s[Len(s)] = PadChar
    THEN IF s[Len(s) - 1] = PadChar THEN SubSeq(s, 1, Len(s) - 2)
         ELSE SubSeq(s, 1, Len(s) - 1)
  ELSE s

RECURSIVE DecodeSextets(_)
DecodeSextets(s) ==
  IF Len(s) <= 1 THEN <<>>
  ELSE IF Len(s) = 2 THEN <<s[1] * 4 + (s[2] \div 16)>>
  ELSE IF Len(s) = 3
    THEN <<s[1] * 4 + (s[2] \div 16), (s[2] % 16) * 16 + (s[3] \div 4)>>
  ELSE <<s[1] * 4 + (s[2] \div 16), (s[2] % 16) * 16 + (s[3] \div 4),
         (s[3] % 4) * 64 + s[4]>>
         \o DecodeSextets(DropFirst(s, 4))

Return(v) == [kind |-> "return", value |-> v]
Throw(e) == [kind |-> "throw", error |-> e]

\* atob: the forgiving base64 decode; it throws the DOMException
\* InvalidCharacterError
Atob(str) ==
  LET s == WithoutPadding(WithoutSpaces(str)) IN
  IF Len(s) % 4 = 1 \/ \E i \in 1..Len(s) : s[i] > 63
    THEN Throw("InvalidCharacterError")
  ELSE Return(DecodeSextets(s))

\* the binary string of atob copied byte by byte into a buffer
base64ToBuffer(base64String) == Atob(base64String)

(***************************************************************************)
(* WebCrypto, idealised.  A digest and a derived key are the terms of      *)
(* their inputs (no collisions); AES-GCM is a stream cipher whose key      *)
(* stream and 16-byte tag are arithmetic in the key, the nonce and the     *)
(* ciphertext, so that a tag verifies only for the key, nonce and          *)
(* ciphertext it was computed for.                                         *)
(***************************************************************************)
Iterations == 100000
KeyBits == 256
NonceBytes == 12
TagBytes == 128 \div 8     \* the default tag length of AES-GCM

Sha256(data) == <<"SHA-256", data>>

Pbkdf2(baseKey, salt, iterations, hash, length) ==
  [algorithm |-> "AES-GCM", length |-> length,
   material |-> <<"PBKDF2", baseKey, salt, iterations, hash>>]

RECURSIVE SumOf(_)
SumOf(b) == IF b = <<>> THEN 0 ELSE b[1] + SumOf(Tail(b))

RECURSIVE WeightedSumOf(_)
WeightedSumOf(b) ==
  IF b = <<>> THEN 0 ELSE Len(b) * b[1] + WeightedSumOf(Tail(b))

\* the key bits as a number: the password bytes read as a base-257 numeral
RECURSIVE KeySeedOf(_)
KeySeedOf(keyData) ==
  IF keyData = <<>> THEN 0
  ELSE (Last(keyData) + 1) + 257 * KeySeedOf(SubSeq(keyData, 1, Len(keyData) - 1))

KeySeed(key) == KeySeedOf(key.material[2])

KeyStream(key, iv, i) == (KeySeed(key) + SumOf(iv) + 7 * i) % 256

Byte(n, k) == IF k = 0 THEN n % 256 ELSE (n \div (256 ^ k)) % 256

GcmTag(key, iv, ct) ==
  [i \in 1..TagBytes |->
     IF i <= 4 THEN Byte(KeySeed(key), i - 1)
     ELSE IF i = 5 THEN SumOf(iv) % 256
     ELSE IF i = 6 THEN WeightedSumOf(iv) % 256
     ELSE IF i = 7 THEN SumOf(ct) % 256
     ELSE IF i = 8 THEN WeightedSumOf(ct) % 256
     ELSE IF i = 9 THEN Len(ct) % 256
     ELSE IF i = 10 THEN Len(iv) % 256
     ELSE 0]

\* crypto.subtle.encrypt({name: "AES-GCM", iv}, key, data): ciphertext || tag
SubtleEncrypt(key, iv, data) ==
  [i \in 1..Len(data) |-> (data[i] + KeyStream(key, iv, i)) % 256]
    \o GcmTag(key, iv, [i \in 1..Len(data) |->
                          (data[i] + KeyStream(key, iv, i)) % 256])

\* crypto.subtle.decrypt({name: "AES-GCM", iv}, key, data): it rejects with
\* the DOMException OperationError when data is shorter than the tag or the
\* tag does not verify, and a missing crypto.subtle is a TypeError.
SubtleDecrypt(key, iv, data) ==
  IF subtle # "ok" THEN Throw("TypeError")
  ELSE IF Len(data) < TagBytes THEN Throw("OperationError")
  ELSE LET ct == SubSeq(data, 1, Len(data) - TagBytes)
           tag == DropFirst(data, Len(data) - TagBytes)
       IN IF tag # GcmTag(key, iv, ct) THEN Throw("OperationError")
          ELSE Return([i \in 1..Len(ct) |->
                         (ct[i] + 256 - KeyStream(key, iv, i)) % 256])

(***************************************************************************)
(* The secret codec                                                        *)
(***************************************************************************)
\* deriveKey: the salt is the digest of the password bytes
derivedKey(password) ==
  LET keyData == Utf8Encode(password)
      baseKey == keyData
      salt == Sha256(keyData)
  IN Pbkdf2(baseKey, salt, Iterations, "SHA-256", KeyBits)

\* a missing crypto.subtle makes the first importKey a TypeError
deriveKey(password) ==
  IF subtle # "ok" THEN Throw("TypeError") ELSE Return(derivedKey(password))

\* encrypt; iv is what crypto.getRandomValues(new Uint8Array(12)) returned
encrypt(text, key, iv) ==
  LET data == Utf8Encode(text)
      encryptedData == SubtleEncrypt(key, iv, data)
      encryptedResult == iv \o encryptedData
  IN bufferToBase64(encryptedResult)

\* Mutant of decryptCatch: every error is thrown again as it is.
decryptCatchRethrowing(err) == Throw(err)

\* The catch block of decrypt: an OperationError DOMException becomes a
\* DecryptionError, any other error is thrown again.
decryptCatch(err) ==
  IF err = "OperationError" THEN Throw("DecryptionError") ELSE Throw(err)

decrypt(ciphertext, key) ==
  LET encryptedResult == base64ToBuffer(ciphertext) IN
  IF encryptedResult.kind = "throw" THEN encryptedResult
  ELSE LET iv == SubSeq(encryptedResult.value, 1,
                        IF Len(encryptedResult.value) < NonceBytes
                          THEN Len(encryptedResult.value) ELSE NonceBytes)
           encryptedData == DropFirst(encryptedResult.value, NonceBytes)
           data == SubtleDecrypt(key, iv, encryptedData)
       IN IF data.kind = "throw" THEN decryptCatch(data.error)
          ELSE Return(Utf8Decode(data.value))

(***************************************************************************)
(* The host's filters, given the key getKey returned                       *)
(***************************************************************************)
\* the code units of "#ENCRYPTED#"
Placeholder == <<35, 69, 78, 67, 82, 89, 80, 84, 69, 68, 35>>

\* decryptFilter after "await getKey()": a DecryptionError becomes the
\* placeholder, any other error is thrown again
decryptFilterWith(ciphertext, key) ==
  LET r == decrypt(ciphertext, key) IN
  IF r.kind = "throw" /\ r.error = "DecryptionError" THEN Return(Placeholder)
  ELSE r

\* the then / catch of the filter registered with addFilter
filterCallback(settled) ==
  IF settled.kind = "return" THEN [err |-> Null, res |-> settled.value]
  ELSE [err |-> settled.error, res |-> Null]

(***************************************************************************)
(* The codec pipeline under study: a plaintext is encrypted under the key  *)
(* of one password, the payload is kept in a document (where it may be     *)
(* damaged), and the decrypt filter of a session whose key comes from a    *)
(* second deriveKey call reads it.                                         *)
(***************************************************************************)
MaxTextLen == 2

\* "A", e acute, the euro sign, U+FEFF and the surrogate pair of U+1F600
TextUnits == {65, 233, 8364, 65279, 55357, 56832}

\* text as a UTF-8 document or a prompt delivers it: surrogates are paired
WellFormed(s) ==
  \A i \in 1..Len(s) :
    /\ IsHighSurrogate(s[i]) => (i < Len(s) /\ IsLowSurrogate(s[i + 1]))
    /\ IsLowSurrogate(s[i]) => (i > 1 /\ IsHighSurrogate(s[i - 1]))

Plaintexts ==
  {s \in UNION {[1..k -> TextUnits] : k \in 0..MaxTextLen} : WellFormed(s)}

\* "p", "q", "pq" and e acute: what prompt() returned (never empty here)
Passwords == {<<112>>, <<113>>, <<112, 113>>, <<233>>}

NonceValues ==
  {[i \in 1..NonceBytes |-> 0], [i \in 1..NonceBytes |-> (37 * i) % 256]}

FlipAt(s, k) == [s EXCEPT ![k] = (s[k] + 32) % 64]

\* the ways a stored payload is damaged: a flipped bit in the nonce, the
\* ciphertext or the tag; a cut after fewer bytes than nonce + tag; text
\* that is not base64
Corruptions(p) ==
  LET bytes == Atob(p).value IN
    {[payload |-> FlipAt(p, k), origin |-> "tampered"] :
       k \in {1, 17, Len(p) - 4}}
    \cup {[payload |-> bufferToBase64(SubSeq(bytes, 1, k)),
           origin |-> "truncated"] :
            k \in {0, NonceBytes - 1, NonceBytes, NonceBytes + TagBytes - 1}}
    \cup {[payload |-> Append(p, 0), origin |-> "notbase64"],
          [payload |-> [p EXCEPT ![1] = OtherChar], origin |-> "notbase64"]}

CodecInit ==
  /\ subtle \in {"ok", "unavailable"}
  /\ stage = "start"
  /\ plaintext \in Plaintexts
  /\ pwEnc \in Passwords
  /\ pwDec \in Passwords
  /\ keyEnc = NoKey /\ keyDec = NoKey /\ nonce = <<>> /\ payload = <<>>
  /\ origin = "none" /\ outcome = NoOutcome /\ callback = NoCallback
  /\ PathIdle
  /\ HostIdle
  /\ PageIdle

DeriveEncKey ==
  /\ stage = "start"
  /\ LET k == deriveKey(pwEnc) IN
       IF k.kind = "return"
         THEN keyEnc' = k.value /\ stage' = "encKey" /\ UNCHANGED outcome
       ELSE outcome' = k /\ stage' = "failed" /\ UNCHANGED keyEnc
  /\ UNCHANGED <<subtle, plaintext, pwEnc, pwDec, keyDec, nonce, payload,
                 origin, callback, pathVars, hostVars, pageVars>>

DeriveDecKey ==
  /\ stage = "encKey"
  /\ LET k == deriveKey(pwDec) IN
       IF k.kind = "return"
         THEN keyDec' = k.value /\ stage' = "keys" /\ UNCHANGED outcome
       ELSE outcome' = k /\ stage' = "failed" /\ UNCHANGED keyDec
  /\ UNCHANGED <<subtle, plaintext, pwEnc, pwDec, keyEnc, nonce, payload,
                 origin, callback, pathVars, hostVars, pageVars>>

Encrypt ==
  /\ stage = "keys"
  /\ \E iv \in NonceValues :
       /\ nonce' = iv
       /\ payload' = encrypt(plaintext, keyEnc, iv)
  /\ origin' = "encrypt"
  /\ stage' = "payload"
  /\ UNCHANGED <<subtle, plaintext, pwEnc, pwDec, keyEnc, keyDec, outcome,
                 callback, pathVars, hostVars, pageVars>>

Corrupt ==
  /\ stage = "payload"
  /\ origin = "encrypt"
  /\ \E c \in Corruptions(payload) :
       /\ payload' = c.payload
       /\ origin' = c.origin
  /\ UNCHANGED <<subtle, stage, plaintext, pwEnc, pwDec, keyEnc, keyDec,
                 nonce, outcome, callback, pathVars, hostVars, pageVars>>

\* the decrypt filter of a session whose cached key is keyDec
DecryptFilter ==
  /\ stage = "payload"
  /\ outcome' = decrypt(payload, keyDec)
  /\ callback' = filterCallback(decryptFilterWith(payload, keyDec))
  /\ stage' = "done"
  /\ UNCHANGED <<subtle, plaintext, pwEnc, pwDec, keyEnc, keyDec, nonce,
                 payload, origin, pathVars, hostVars, pageVars>>

CodecNext ==
  DeriveEncKey \/ DeriveDecKey \/ Encrypt \/ Corrupt \/ DecryptFilter

SpecCodec == CodecInit /\ [][CodecNext]_vars

\* C3: decrypt(encrypt(s, k1), k2) returns exactly s when k1 and k2 come
\* from two separate deriveKey calls on the same password.
C3_RoundTrip ==
  (stage = "done" /\ origin = "encrypt" /\ pwEnc = pwDec)
    => outcome = Return(plaintext)

\* C4: a payload encrypted under the key of password a and decrypted under
\* the key of another password b never gives the plaintext nor an unrelated
\* error: decrypt throws DecryptionError and the decrypt filter calls back
\* with no error and the placeholder.
C4_WrongPassword ==
  (stage = "done" /\ origin = "encrypt" /\ pwEnc # pwDec) =>
    /\ outcome = Throw("DecryptionError")
    /\ callback.err = Null
    /\ callback.res = Placeholder

\* C4 witness: a non-empty secret read back with another password
C4_Witness ==
  /\ stage = "done"
  /\ origin = "encrypt"
  /\ pwEnc = <<112>>
  /\ pwDec = <<113>>
  /\ plaintext = <<65, 8364>>
  /\ callback.err = Null
  /\ callback.res = Placeholder

\* C5: a malformed payload (not base64, or fewer bytes than nonce + tag)
\* makes decrypt throw an error that is not DecryptionError; the filter
\* hands every such error to its callback as an error, never as the
\* placeholder; only a tag mismatch on a well-formed payload gives
\* DecryptionError.
C5_ErrorTaxonomy ==
  stage = "done" =>
    /\ origin \in {"notbase64", "truncated"} =>
         /\ outcome.kind = "throw"
         /\ outcome.error # "DecryptionError"
    /\ (outcome.kind = "throw" /\ outcome.error # "DecryptionError") =>
         callback.err = outcome.error
    /\ (outcome.kind = "throw" /\ outcome.error = "DecryptionError") =>
         origin \in {"encrypt", "tampered"}

(***************************************************************************)
(* The host session: the cached cryptoKey, getKey and the two filters.     *)
(* Each of the MaxCalls slots is one filter call in flight; a call is      *)
(* "prompting" while its prompt() dialog is open (which blocks every other *)
(* script), "deriving" while it awaits deriveKey, and "haveKey" once       *)
(* "await getKey()" has given it a key.                                    *)
(***************************************************************************)
MaxCalls == 2
Calls == 1..MaxCalls

IdleCall == [kind |-> "none", input |-> <<>>, password |-> <<>>, key |-> NoKey]

SessionPasswords == {<<112>>, <<113>>}
ZeroNonce == [i \in 1..NonceBytes |-> 0]

\* what a template hands to the filters: a text to encrypt; to decrypt, a
\* payload written under the first password and a string that is not base64
StoredPayload == encrypt(<<65>>, derivedKey(<<112>>), ZeroNonce)

FilterInputs(kind) ==
  IF kind = "encrypt" THEN {<<65>>} ELSE {StoredPayload, <<OtherChar>>}

\* what prompt() returns: null on cancel, else the text typed (maybe empty)
PromptAnswers ==
  {[given |-> FALSE, text |-> <<>>], [given |-> TRUE, text |-> <<>>]}
    \cup {[given |-> TRUE, text |-> pw] : pw \in SessionPasswords}

NobodyPrompting == \A c \in Calls : pc[c] # "prompting"

Init ==
  /\ subtle \in {"ok", "unavailable"}
  /\ cryptoKey = NoKey
  /\ pc = [c \in Calls |-> "idle"]
  /\ call = [c \in Calls |-> IdleCall]
  /\ event = [type |-> "none"]
  /\ CodecOff
  /\ PathIdle
  /\ PageIdle

\* A filter is called: encryptFilter / decryptFilter run getKey up to its
\* first suspension: the cached key, or the first prompt.
StartFilter(c) ==
  /\ pc[c] = "idle"
  /\ NobodyPrompting
  /\ \E kind \in {"encrypt", "decrypt"} :
       \E input \in FilterInputs(kind) :
         IF cryptoKey # NoKey
           THEN /\ pc' = [pc EXCEPT ![c] = "haveKey"]
                /\ call' = [call EXCEPT ![c] =
                     [kind |-> kind, input |-> input, password |-> <<>>,
                      key |-> cryptoKey]]
                /\ event' = [type |-> "cached", call |-> c]
         ELSE /\ pc' = [pc EXCEPT ![c] = "prompting"]
              /\ call' = [call EXCEPT ![c] =
                   [kind |-> kind, input |-> input, password |-> <<>>,
                    key |-> NoKey]]
              /\ event' = [type |-> "prompt", call |-> c]
  /\ UNCHANGED <<cryptoKey, codecVars, pathVars, pageVars>>

\* "!password" of the prompt loop: null (cancelled) and "" are falsy
falsyOnlyNull(answer) == ~answer.given

falsy(answer) == ~answer.given \/ answer.text = <<>>

\* prompt() returns: the while loop prompts again on null or "", else
\* getKey calls deriveKey(password) and suspends at its await.
PromptReturns(c) ==
  /\ pc[c] = "prompting"
  /\ \E answer \in PromptAnswers :
       IF falsy(answer)
         THEN /\ event' = [type |-> "prompt", call |-> c, answer |-> answer]
              /\ UNCHANGED <<pc, call>>
       ELSE /\ pc' = [pc EXCEPT ![c] = "deriving"]
            /\ call' = [call EXCEPT ![c].password = answer.text]
            /\ event' = [type |-> "deriveKey", call |-> c, answer |-> answer]
  /\ UNCHANGED <<cryptoKey, codecVars, pathVars, pageVars>>

\* deriveKey resolves: "cryptoKey = await deriveKey(password)"
DeriveResolves(c) ==
  /\ pc[c] = "deriving"
  /\ NobodyPrompting
  /\ deriveKey(call[c].password).kind = "return"
  /\ cryptoKey' = deriveKey(call[c].password).value
  /\ pc' = [pc EXCEPT ![c] = "haveKey"]
  /\ call' = [call EXCEPT ![c].key = deriveKey(call[c].password).value]
  /\ event' = [type |-> "keyReady", call |-> c]
  /\ UNCHANGED <<codecVars, pathVars, pageVars>>

\* a getKey that would prompt again when its deriveKey rejects
DeriveRejectsRetrying(c) ==
  /\ pc[c] = "deriving"
  /\ NobodyPrompting
  /\ deriveKey(call[c].password).kind = "throw"
  /\ event' = [type |-> "prompt", call |-> c]
  /\ pc' = [pc EXCEPT ![c] = "prompting"]
  /\ call' = [call EXCEPT ![c].password = <<>>]
  /\ UNCHANGED <<cryptoKey, codecVars, pathVars, pageVars>>

\* deriveKey rejects: the await in getKey throws before the assignment to
\* cryptoKey, getKey and the filter reject (the await of getKey is outside
\* decryptFilter's try), and the filter's .catch calls back with the reason.
DeriveRejects(c) ==
  /\ pc[c] = "deriving"
  /\ NobodyPrompting
  /\ deriveKey(call[c].password).kind = "throw"
  /\ event' = [type |-> "callback", call |-> c, kind |-> call[c].kind,
               key |-> NoKey,
               cb |-> filterCallback(deriveKey(call[c].password))]
  /\ pc' = [pc EXCEPT ![c] = "idle"]
  /\ call' = [call EXCEPT ![c] = IdleCall]
  /\ UNCHANGED <<cryptoKey, codecVars, pathVars, pageVars>>

\* the rest of the filter with the key it was given, and its callback
FilterSettles(c) ==
  /\ pc[c] = "haveKey"
  /\ NobodyPrompting
  /\ \E iv \in NonceValues :
       LET settled == IF call[c].kind = "encrypt"
                        THEN Return(encrypt(call[c].input, call[c].key, iv))
                      ELSE decryptFilterWith(call[c].input, call[c].key)
       IN event' = [type |-> "callback", call |-> c, kind |-> call[c].kind,
                    key |-> call[c].key, cb |-> filterCallback(settled)]
  /\ pc' = [pc EXCEPT ![c] = "idle"]
  /\ call' = [call EXCEPT ![c] = IdleCall]
  /\ UNCHANGED <<cryptoKey, codecVars, pathVars, pageVars>>

Next ==
  \E c \in Calls :
    \/ StartFilter(c)
    \/ PromptReturns(c)
    \/ DeriveResolves(c)
    \/ DeriveRejects(c)
    \/ FilterSettles(c)

Spec == Init /\ [][Next]_vars

\* C1: while a first-use derivation is in flight no other call prompts or
\* derives (one prompt, one deriveKey), and every call that was given a key
\* holds the key the session caches.
C1_SingleDerivation ==
  /\ \A c1, c2 \in Calls :
       (c1 # c2 /\ pc[c1] = "deriving") => pc[c2] \notin {"prompting", "deriving"}
  /\ \A c \in Calls : pc[c] = "haveKey" => call[c].key = cryptoKey

\* C2: once a key is cached (KeyReady) the cached key stays the same, no
\* step prompts or calls deriveKey, and a call that starts is given the
\* cached key.
C2_KeyReadyIsStable ==
  [][cryptoKey # NoKey =>
       /\ cryptoKey' = cryptoKey
       /\ event'.type \notin {"prompt", "deriveKey"}
       /\ \A c \in Calls :
            (pc[c] = "idle" /\ pc'[c] = "haveKey") => call'[c].key = cryptoKey]_vars

(***************************************************************************)
(* The prompt loop of getKey.                                              *)
(***************************************************************************)
\* the user's side of the session: a prompt that is open is eventually
\* answered with a non-empty password; the job queue is first in, first
\* out, so a settled deriveKey is delivered at one of the times no prompt
\* blocks the page
PromptAccepted(c) == PromptReturns(c) /\ pc'[c] = "deriving"

SpecAnswered ==
  /\ Spec
  /\ \A c \in Calls : /\ WF_vars(PromptAccepted(c))
                      /\ SF_vars(DeriveResolves(c) \/ DeriveRejects(c))

EmptyOrCancelled(answer) == ~answer.given \/ Len(answer.text) = 0

\* C11: a step taken while a call's prompt is open is that prompt returning:
\* after an empty or cancelled answer the call prompts again and nothing
\* else changes; after the first non-empty answer deriveKey is called with
\* exactly that answer, and the key the call gets is derived from it.  No
\* call awaits a deriveKey of an empty password.  When the user eventually
\* answers with a non-empty password, getKey completes.
C11_PromptRetry ==
  /\ [][\A c \in Calls :
          /\ (pc[c] = "prompting" /\ <<pc, call, event>>' # <<pc, call, event>>) =>
               /\ event'.type \in {"prompt", "deriveKey"}
               /\ event'.call = c
               /\ cryptoKey' = cryptoKey
               /\ IF EmptyOrCancelled(event'.answer)
                    THEN /\ event'.type = "prompt"
                         /\ pc' = pc
                         /\ call' = call
                  ELSE /\ event'.type = "deriveKey"
                       /\ pc'[c] = "deriving"
                       /\ call'[c].password = event'.answer.text
          /\ (pc[c] # "deriving" /\ pc'[c] = "deriving") => pc[c] = "prompting"
          /\ (pc[c] = "deriving" /\ pc'[c] = "haveKey") =>
               /\ call[c].password # <<>>
               /\ call'[c].key = derivedKey(call[c].password)
               /\ cryptoKey' = call'[c].key]_vars
  /\ [](\A c \in Calls : pc[c] = "deriving" => call[c].password # <<>>)
  /\ \A c \in Calls : (pc[c] = "prompting") ~> (pc[c] \in {"haveKey", "idle"})

\* the prompt was cancelled or answered with "" and the call prompts again
C11_Witness ==
  \E c \in Calls :
    \E answer \in PromptAnswers :
      /\ EmptyOrCancelled(answer)
      /\ pc[c] = "prompting"
      /\ event = [type |-> "prompt", call |-> c, answer |-> answer]

(***************************************************************************)
(* A key derivation that fails.                                            *)
(***************************************************************************)
\* C12: when the deriveKey a call awaits rejects, the step that ends the
\* wait is the call's filter calling back with the error and no result
\* (not the placeholder): the call is over, so nothing more is prompted or
\* derived for it, and no key is cached.
C12_DeriveFailure ==
  [][\A c \in Calls :
       (/\ pc[c] = "deriving"
        /\ deriveKey(call[c].password).kind = "throw"
        /\ pc'[c] # "deriving") =>
          /\ event'.type = "callback"
          /\ event'.call = c
          /\ event'.kind = call[c].kind
          /\ event'.cb.err = "TypeError"
          /\ event'.cb.res = Null
          /\ pc'[c] = "idle"
          /\ call'[c] = IdleCall
          /\ cryptoKey = NoKey
          /\ cryptoKey' = NoKey]_vars

\* a decrypt filter has called back with the error of the failed derivation
C12_Witness ==
  /\ event.type = "callback"
  /\ event.kind = "decrypt"
  /\ event.key = NoKey
  /\ event.cb.err = "TypeError"
  /\ cryptoKey = NoKey

(***************************************************************************)
(* relative and resolve as inverses; resolve as a projection.              *)
(***************************************************************************)
\* C13: with an absolute working directory, resolving relative(from, to)
\* against from gives resolve(to), and relative(from, to) is empty only
\* when from and to resolve to the same path.
C13_RelativeInvertsResolve ==
  (op = "relative" /\ isAbsolute(cwd)) =>
    /\ resolve(cwd, <<paths[1], result>>) = resolve(cwd, <<paths[2]>>)
    /\ result = <<>> => resolve(cwd, <<paths[1]>>) = resolve(cwd, <<paths[2]>>)

\* a relative path that climbs out of from and descends into to
C13_Witness ==
  /\ op = "relative"
  /\ isAbsolute(cwd)
  /\ Len(result) > 3
  /\ SubSeq(result, 1, 3) = <<".", ".", "/">>
  /\ Last(result) = "a"

\* C16: with an absolute working directory, resolve applied to its own
\* result returns it unchanged, the result is absolute, and the result is
\* that of the segments from any absolute segment on (the segments to its
\* left have no effect).
C16_ResolveIdempotentAnchored ==
  (op = "resolve" /\ isAbsolute(cwd)) =>
    /\ resolve(cwd, <<result>>) = result
    /\ isAbsolute(result)
    /\ \A i \in 1..Len(paths) :
         isAbsolute(paths[i]) =>
           resolve(cwd, SubSeq(paths, i, Len(paths))) = result

\* a named segment to the left of an absolute segment was dropped
C16_Witness ==
  /\ op = "resolve"
  /\ isAbsolute(cwd)
  /\ Len(paths) = 2
  /\ paths[1] = <<"a">>
  /\ isAbsolute(paths[2])
  /\ result = <<"/", "a", "a">>

(***************************************************************************)
(* The template stack of the patched Template.render.  One render context  *)
(* is followed: the outermost render is the one nunjucksRender starts on a *)
(* fresh context, the nested ones are the renders of included templates,   *)
(* which receive the variables of the including render and so share its    *)
(* __templateStack array.  The template engine is the environment: it      *)
(* starts an included render while the including one is unfinished, either *)
(* suspending the including template until the include calls back or (in a *)
(* parallel loop) letting it and its other includes go on, and it finishes *)
(* a render only after the renders it started.                             *)
(***************************************************************************)
MaxRenders == 3
Renders == 1..MaxRenders

Undefined == "undefined"
TemplatePaths == {"/a/t.md", "/b/u.md"}

IdleRender ==
  [state |-> "idle", path |-> Undefined, parent |-> 0, awaited |-> FALSE]

\* "if (templatePath) { stack.push(templatePath); }"
pushTemplate(stack, templatePath) ==
  IF templatePath # Undefined THEN Append(stack, templatePath) ELSE stack

\* popTemplate: "if (templatePath) { stack.pop(); }"
popTemplate(stack, templatePath) ==
  IF templatePath # Undefined /\ stack # <<>>
    THEN SubSeq(stack, 1, Len(stack) - 1)
  ELSE stack

\* "stack[stack.length - 1]"
topOfStack(stack) == IF stack = <<>> THEN Undefined ELSE Last(stack)

Running(r) == renders[r].state = "running"

\* the template of r waits for the callback of a render it started
Suspended(r) ==
  \E k \in Renders : Running(k) /\ renders[k].parent = r /\ renders[k].awaited

RenderInit ==
  /\ templateStack = <<>>
  /\ renders = [r \in Renders |-> IdleRender]
  /\ tagSeen = NoTag
  /\ AssetIdle
  /\ PathIdle
  /\ CodecIdle
  /\ HostIdle

\* nunjucksRender: new Template(src, env, path).render(context, cb) on the
\* fresh context of a document; path is fileStore.req?.path
RenderOutermost(r) ==
  /\ \A k \in Renders : ~Running(k)
  /\ \E templatePath \in TemplatePaths \cup {Undefined} :
       /\ renders' = [k \in Renders |->
            IF k = r THEN [state |-> "running", path |-> templatePath,
                           parent |-> 0, awaited |-> FALSE]
            ELSE IdleRender]
       /\ templateStack' = pushTemplate(<<>>, templatePath)
  /\ UNCHANGED <<tagSeen, assetVars, pathVars, codecVars, hostVars>>

\* the render of a template the loader returned, called with a callback
\* from the running render p
RenderIncluded(p, r) ==
  /\ Running(p)
  /\ ~Suspended(p)
  /\ renders[r].state = "idle"
  /\ \E templatePath \in TemplatePaths :
       \E awaited \in BOOLEAN :
         /\ renders' = [renders EXCEPT ![r] =
              [state |-> "running", path |-> templatePath, parent |-> p,
               awaited |-> awaited]]
         /\ templateStack' = pushTemplate(templateStack, templatePath)
  /\ UNCHANGED <<tagSeen, assetVars, pathVars, codecVars, hostVars>>

\* a render called without a callback from the running render p: the tags
\* of its template are evaluated and it returns or throws in the same job
RenderSync(p, r) ==
  /\ Running(p)
  /\ ~Suspended(p)
  /\ renders[r].state = "idle"
  /\ \E templatePath \in TemplatePaths :
       LET stack == pushTemplate(templateStack, templatePath) IN
         /\ renders' = [renders EXCEPT ![r] =
              [state |-> "done", path |-> templatePath, parent |-> p,
               awaited |-> TRUE]]
         /\ tagSeen' = [template |-> templatePath, top |-> topOfStack(stack)]
         /\ templateStack' = popTemplate(stack, templatePath)
  /\ UNCHANGED <<assetVars, pathVars, codecVars, hostVars>>

\* a download / image / link tag of the template of r is evaluated:
\* resolveFileArgs reads the top of the stack
EvalTag(r) ==
  /\ Running(r)
  /\ ~Suspended(r)
  /\ tagSeen' = [template |-> renders[r].path,
                 top |-> topOfStack(templateStack)]
  /\ UNCHANGED <<templateStack, renders, assetVars, pathVars, codecVars,
                 hostVars>>

\* the original render calls back: popTemplate, then the caller's callback
RenderCallsBack(r) ==
  /\ Running(r)
  /\ \A k \in Renders : Running(k) => renders[k].parent # r
  /\ templateStack' = popTemplate(templateStack, renders[r].path)
  /\ renders' = [renders EXCEPT ![r].state = "done"]
  /\ UNCHANGED <<tagSeen, assetVars, pathVars, codecVars, hostVars>>

RenderNext ==
  \E r \in Renders :
    \/ RenderOutermost(r)
    \/ \E p \in Renders : RenderIncluded(p, r)
    \/ \E p \in Renders : RenderSync(p, r)
    \/ EvalTag(r)
    \/ RenderCallsBack(r)

SpecRender == RenderInit /\ [][RenderNext]_vars

PathsOfRunning ==
  {r \in Renders : Running(r) /\ renders[r].path # Undefined}

\* C14: the stack holds one entry per unfinished render of a template that
\* has a path (pushed on entry, popped once at the end), it is back to the
\* empty stack of the fresh context when no render is left, and a tag is
\* evaluated with the path of its own template on top of the stack.
C14_TemplateStack ==
  /\ Len(templateStack) = Cardinality(PathsOfRunning)
  /\ (\A r \in Renders : ~Running(r)) => templateStack = <<>>
  /\ tagSeen # NoTag => tagSeen.top = tagSeen.template

(***************************************************************************)
(* The assets of markedPreprocess.  Each of the MaxPreprocess slots is one *)
(* call of markedPreprocess; the calls overlap because every "await" ends  *)
(* a job.  An element of the document is a record of its kind, its load    *)
(* state and the call whose promise its onload / onerror handlers settle.  *)
(***************************************************************************)
MaxPreprocess == 2
Preprocesses == 1..MaxPreprocess

\* the assets in the order markedPreprocess asserts them: assertLink for the
\* four style sheets, then assertScript for highlight.js, mermaid, nunjucks
\* and yaml-front-matter
AssetKinds ==
  <<"link", "link", "link", "link", "script", "script", "script", "script">>
Assets == 1..Len(AssetKinds)
Scripts == {a \in Assets : AssetKinds[a] = "script"}

IdlePreprocess == [pc |-> "idle", asset |-> 0]

\* the page before the first call: no element has an asset id, or some
\* other element of the page has the id of the first script
ForeignElement == [kind |-> "other", state |-> "loaded", owner |-> 0]
InitialDocuments ==
  {[a \in Assets |-> <<>>],
   [a \in Assets |-> IF AssetKinds[a] = "script" /\ AssetKinds[a - 1] = "link"
                       THEN <<ForeignElement>> ELSE <<>>]}

AssetInit ==
  /\ document \in InitialDocuments
  /\ preprocess = [p \in Preprocesses |-> IdlePreprocess]
  /\ loaded = NoLoad
  /\ RenderIdle
  /\ PathIdle
  /\ CodecIdle
  /\ HostIdle

\* "el instanceof HTMLLinkElement" / "el instanceof HTMLScriptElement" for
\* el = document.getElementById(id), the first element with that id
Found(a) == document[a] # <<>> /\ document[a][1].kind = AssetKinds[a]

\* the executor of the promise of assertLink / assertScript, run by call p:
\* an element of the right kind resolves the promise at once; otherwise an
\* element of another kind is removed and a new element is appended, whose
\* onload and onerror settle the promise
assertElement(p, a) ==
  IF Found(a)
    THEN /\ preprocess' = [preprocess EXCEPT ![p] =
                             [pc |-> "resolved", asset |-> a]]
         /\ loaded' = [type |-> "resolved", call |-> p, asset |-> a,
                       state |-> document[a][1].state]
         /\ UNCHANGED document
  ELSE /\ document' = [document EXCEPT ![a] =
            Append(IF document[a] # <<>> THEN Tail(document[a]) ELSE <<>>,
                   [kind |-> AssetKinds[a], state |-> "loading",
                    owner |-> p])]
       /\ preprocess' = [preprocess EXCEPT ![p] =
                           [pc |-> "waiting", asset |-> a]]
       /\ loaded' = [type |-> "appended", call |-> p, asset |-> a]

\* marked calls the preprocess hook: markedPreprocess runs up to its first
\* await, the promise of the first assertLink
StartPreprocess(p) ==
  /\ preprocess[p].pc = "idle"
  /\ assertElement(p, 1)
  /\ UNCHANGED <<renderVars, pathVars, codecVars, hostVars>>

\* the job after a resolved await: the next assertLink / assertScript
NextAsset(p) ==
  /\ preprocess[p].pc = "resolved"
  /\ preprocess[p].asset < Len(AssetKinds)
  /\ assertElement(p, preprocess[p].asset + 1)
  /\ UNCHANGED <<renderVars, pathVars, codecVars, hostVars>>

\* the job after the last await: "const { hljs, mermaid, nunjucks, jsyaml }
\* = window", defined once the scripts have run
ReadWindow(p) ==
  /\ preprocess[p].pc = "resolved"
  /\ preprocess[p].asset = Len(AssetKinds)
  /\ loaded' = [type |-> "read", call |-> p,
                ready |-> \A a \in Scripts :
                            /\ document[a] # <<>>
                            /\ document[a][1].state = "loaded"]
  /\ preprocess' = [preprocess EXCEPT ![p] = [pc |-> "done", asset |-> 0]]
  /\ UNCHANGED <<document, renderVars, pathVars, codecVars, hostVars>>

\* the element of asset a fires onload: resolve(link) / resolve(script)
Onload(a) ==
  /\ document[a] # <<>>
  /\ Last(document[a]).state = "loading"
  /\ LET el == Last(document[a]) IN
       /\ document' = [document EXCEPT ![a][Len(document[a])].state = "loaded"]
       /\ preprocess' = [preprocess EXCEPT ![el.owner] =
                           [pc |-> "resolved", asset |-> a]]
       /\ loaded' = [type |-> "resolved", call |-> el.owner, asset |-> a,
                     state |-> "loaded"]
  /\ UNCHANGED <<renderVars, pathVars, codecVars, hostVars>>

\* the element fires onerror: reject(...), markedPreprocess rejects; the
\* element stays in the document
Onerror(a) ==
  /\ document[a] # <<>>
  /\ Last(document[a]).state = "loading"
  /\ LET el == Last(document[a]) IN
       /\ document' = [document EXCEPT ![a][Len(document[a])].state = "failed"]
       /\ preprocess' = [preprocess EXCEPT ![el.owner] =
                           [pc |-> "failed", asset |-> 0]]
       /\ loaded' = [type |-> "rejected", call |-> el.owner, asset |-> a]
  /\ UNCHANGED <<renderVars, pathVars, codecVars, hostVars>>

AssetNext ==
  \/ \E p \in Preprocesses : StartPreprocess(p) \/ NextAsset(p) \/ ReadWindow(p)
  \/ \E a \in Assets : Onload(a) \/ Onerror(a)

SpecAssets == AssetInit /\ [][AssetNext]_vars

\* C15: a call reads the globals of the scripts only when every script
\* element has fired onload, a promise of assertLink / assertScript
\* resolves only with an element that has finished loading, and no asset
\* id is held by two elements of the document.
C15_AssetsLoadedBeforeUse ==
  /\ loaded.type = "read" => loaded.ready
  /\ loaded.type = "resolved" => loaded.state = "loaded"
  /\ \A a \in Assets : Len(document[a]) <= 1

====
